---- MODULE Spec2Model ----
(***************************************************************************)
(* Model of recursive-file-publisher: the RabbitClient publisher           *)
(* (rabbit.py), used directly, in a with statement or by the orchestrating *)
(* main() (cli.py), and the message publish_json puts on the wire.         *)
(*                                                                         *)
(* The broker library is the environment.  A broker object is identified   *)
(* by its position in conns / chans; an operation on it either succeeds or *)
(* raises.  A raising channel-level operation leaves the channel closed    *)
(* (AMQPChannelError) or the whole connection closed (AMQPConnectionError),*)
(* which is what the blocking adapter of the library does.                 *)
(***************************************************************************)
EXTENDS Integers, Sequences, FiniteSets, TLC

\* ---------------------------------------------------------------- bounds
MaxConns == 2
MaxChans == 3
MaxRetry == 2
MaxFiles == 2
MaxText == 2
MaxEntries == 3

\* ------------------------------------------------------ program constants
\* publish_json(self, payload, retry_count=3)
DefaultRetryCount == 3
\* return 130 on KeyboardInterrupt
ExitInterrupted == 130
\* delivery_mode=2: a persistent message
PersistentDeliveryMode == 2

VARIABLES
    conns,        \* broker side: conns[i] is TRUE while connection i is open
    chans,        \* broker side: chans[j] = [conn, open, declared]
    connection,   \* RabbitClient._connection (0 is None)
    channel,      \* RabbitClient._channel (0 is None)
    pj,           \* the frame of the publish_json call in progress or just ended;
                  \* the caller's next operation discards it
    last,         \* what the last client operation did (observation only)
    driver,       \* who calls the client: "api" (any caller), "main", or
                  \* "with" (a with statement around the client)
    m,            \* the frame of main(): position, options, counters, exit code
    scope,        \* the frame of a with statement: position, close() calls, errors
    wire,         \* one message on its way: payload, basic_publish call, parsed body
    walk,         \* one iter_files generator: the tree, its position, what it yielded
    cfg           \* one resolution of the broker settings: inputs and RabbitConfig

vars == <<conns, chans, connection, channel, pj, last, driver, m, scope, wire, walk, cfg>>

\* The frames that only their own driver touches.
others == <<scope, wire, walk, cfg>>

\* ---------------------------------------------------------------- errors
ConnErr == "AMQPConnectionError"
ChanErr == "AMQPChannelError"
OtherErr == "Exception"
None == "none"

AMQPKinds == {ConnErr, ChanErr}

\* An exception object: its class and the attempt that produced it.
Error(kind, at) == [kind |-> kind, at |-> at]
NoError == Error(None, -1)

\* ------------------------------------------------------------ broker side
\* The client's fields and the broker objects, as one value.
World == [conns |-> conns, chans |-> chans, connection |-> connection, channel |-> channel]

IsOpenConn(w, c) == c # 0 /\ w.conns[c]
IsOpenChan(w, h) == h # 0 /\ w.chans[h].open

\* Closing (or losing) connection c closes every channel opened on it.
DropConn(w, c) ==
    [w EXCEPT !.conns = [w.conns EXCEPT ![c] = FALSE],
              !.chans = [j \in DOMAIN w.chans |->
                            IF w.chans[j].conn = c
                            THEN [w.chans[j] EXCEPT !.open = FALSE]
                            ELSE w.chans[j]]]

DropChan(w, h) == [w EXCEPT !.chans[h].open = FALSE]

\* The effect of a failure of kind k of an operation on channel h of connection c.
Fail(w, c, h, k) ==
    IF k = ConnErr THEN DropConn(w, c)
    ELSE IF k = ChanErr /\ h # 0 THEN DropChan(w, h)
    ELSE w

\* What a step of the client did: r.w the world after it, r.err the exception it
\* raised (None if it returned), and the broker objects it made.
Result(w, err, newConn, newChan, declared) ==
    [w |-> w, err |-> err, newConn |-> newConn, newChan |-> newChan, declared |-> declared]

\* As OpenChannelDeclared, with the queue_declare call left out.
OpenChannelUndeclared(w, c, o, newConn) ==
    IF o.stage = "channel"
    THEN Result(Fail(w, c, 0, o.kind), o.kind, newConn, 0, 0)
    ELSE LET h == Len(w.chans) + 1
         IN Result([w EXCEPT !.chans = Append(w.chans, [conn |-> c, open |-> TRUE, declared |-> FALSE]),
                             !.channel = h],
                   None, newConn, h, 0)

\* self._channel = <conn>.channel(); self._channel.queue_declare(queue, durable=True)
\* on connection c of world w; o.stage names the call that raises, o.kind how.
OpenChannelDeclared(w, c, o, newConn) ==
    IF o.stage = "channel"
    THEN Result(Fail(w, c, 0, o.kind), o.kind, newConn, 0, 0)
    ELSE LET h  == Len(w.chans) + 1
             w1 == [w EXCEPT !.chans = Append(w.chans, [conn |-> c, open |-> TRUE, declared |-> FALSE]),
                             !.channel = h]
         IN IF o.stage = "declare"
            THEN Result(Fail(w1, c, h, o.kind), o.kind, newConn, h, 0)
            ELSE Result([w1 EXCEPT !.chans[h].declared = TRUE], None, newConn, h, h)

\* ------------------------------------------------- what the broker may do
Outcome(stage, kind) == [stage |-> stage, kind |-> kind]
Ok == Outcome("ok", None)

\* How connect() may go in world w.  A new broker object is granted only below
\* the model's bounds; at the bound the broker refuses.
ConnectOutcomes(w) ==
    {Outcome("open", ConnErr)}
    \cup (IF Len(w.conns) < MaxConns
          THEN {Outcome("channel", k) : k \in AMQPKinds}
          ELSE {})
    \cup (IF Len(w.conns) < MaxConns /\ Len(w.chans) < MaxChans
          THEN {Ok} \cup {Outcome("declare", k) : k \in AMQPKinds}
          ELSE {})

\* How reopening the channel on the open connection may go.
ReopenOutcomes(w) ==
    {Outcome("channel", k) : k \in AMQPKinds}
    \cup (IF Len(w.chans) < MaxChans
          THEN {Ok} \cup {Outcome("declare", k) : k \in AMQPKinds}
          ELSE {})

\* ------------------------------------------------------------ RabbitClient
\* RabbitClient.connect
connect(w, o) ==
    IF o.stage = "open"
    THEN Result(w, o.kind, 0, 0, 0)
    ELSE LET c  == Len(w.conns) + 1
             w1 == [w EXCEPT !.conns = Append(w.conns, TRUE), !.connection = c]
         IN OpenChannelDeclared(w1, c, o, c)

\* As EnsureBranch, without the is_closed test of the connection.
EnsureBranchNoneOnly(w) ==
    IF w.connection = 0 THEN "connect"
    ELSE IF ~IsOpenChan(w, w.channel) THEN "reopen"
    ELSE "nothing"

\* The branch _ensure_connection takes in world w.
EnsureBranch(w) ==
    IF ~IsOpenConn(w, w.connection) THEN "connect"
    ELSE IF ~IsOpenChan(w, w.channel) THEN "reopen"
    ELSE "nothing"

EnsureOutcomes(w) ==
    CASE EnsureBranch(w) = "connect" -> ConnectOutcomes(w)
      [] EnsureBranch(w) = "reopen"  -> ReopenOutcomes(w)
      [] OTHER                       -> {Ok}

\* As ensure_connection, reconnecting whenever anything is closed.
ensure_connection_reconnects(w, o) ==
    IF EnsureBranch(w) = "nothing" THEN Result(w, None, 0, 0, 0) ELSE connect(w, o)

\* RabbitClient._ensure_connection
ensure_connection(w, o) ==
    CASE EnsureBranch(w) = "connect" -> connect(w, o)
      [] EnsureBranch(w) = "reopen"  -> OpenChannelDeclared(w, w.connection, o, 0)
      [] OTHER                       -> Result(w, None, 0, 0, 0)

\* How self._channel.basic_publish may go in world w.
PublishOutcomes(w) ==
    IF w.channel = 0 THEN {OtherErr}
    ELSE IF ~w.chans[w.channel].open THEN {ChanErr}
    ELSE {None, ChanErr, ConnErr, OtherErr}

\* self._channel.basic_publish(exchange="", routing_key=queue, body, properties)
basic_publish(w, p) ==
    IF w.channel = 0 THEN w
    ELSE Fail(w, w.chans[w.channel].conn, w.channel, p)

\* As CaughtByClose, for a clause that names the channel errors only.
CaughtByCloseChannelOnly(kind) == kind = ChanErr

\* except Exception, the clause of close(): every error class of the model
\* derives from Exception.
CaughtByClose(kind) == kind \in {ConnErr, ChanErr, OtherErr}

\* RabbitClient.close; o.stage names the close call that raises, if one does.
\* A raising channel.close() is caught by the except clause, which skips
\* connection.close().
close(w, o) ==
    LET closeChan == IsOpenChan(w, w.channel)
        w1 == IF ~closeChan THEN w
              ELSE IF o.stage = "channel"
                   THEN Fail(DropChan(w, w.channel), w.chans[w.channel].conn, w.channel, o.kind)
                   ELSE DropChan(w, w.channel)
        raised    == closeChan /\ o.stage = "channel"
        closeConn == ~raised /\ IsOpenConn(w1, w1.connection)
        w2 == IF closeConn THEN DropConn(w1, w1.connection) ELSE w1
        thrown == IF raised \/ (closeConn /\ o.stage = "connection") THEN o.kind ELSE None
    IN [w |-> w2, chanCloses |-> IF closeChan THEN 1 ELSE 0,
        connCloses |-> IF closeConn THEN 1 ELSE 0,
        swallowed |-> thrown # None /\ CaughtByClose(thrown),
        err |-> IF CaughtByClose(thrown) THEN None ELSE thrown]

\* How close() may go in world w.
CloseOutcomes(w) ==
    {Ok}
    \cup (IF IsOpenChan(w, w.channel) THEN {Outcome("channel", k) : k \in AMQPKinds} ELSE {})
    \cup (IF IsOpenConn(w, w.connection) THEN {Outcome("connection", ConnErr)} ELSE {})

\* ------------------------------------------------- publish_json's retry loop
\* range(retry_count)
AttemptRange(retry_count) == 0 .. (retry_count - 1)

\* As IsLastAttempt, one pass late.
IsLastAttemptOffByOne(attempt, retry_count) == attempt = retry_count

\* attempt == retry_count - 1
IsLastAttempt(attempt, retry_count) == attempt = retry_count - 1

\* As Reraise, raising the first failure of the call.
ReraiseFirst(failures) == failures[1]

\* The bare raise of the except clause re-raises the exception being handled,
\* which is the last one caught.
Reraise(failures) == failures[Len(failures)]

\* The exception classes the except clause of publish_json catches.
Caught(kind) == kind \in {ConnErr, ChanErr}

IdleCall ==
    [pc |-> "idle", retry_count |-> 0, attempt |-> 0, failures |-> <<>>,
     raised |-> NoError, pubs |-> 0, sent |-> 0, ensureFails |-> 0]

\* publish_json up to its first attempt: an empty range returns at once.
BeginCall(n) ==
    [IdleCall EXCEPT !.pc = IF 0 \in AttemptRange(n) THEN "running" ELSE "returned",
                     !.retry_count = n]

\* As AttemptEnd, with a failed _ensure_connection outside the try block's
\* count: the pass is taken again.
AttemptEndFreeReconnect(c, kind, called) ==
    LET c1 == [c EXCEPT !.pubs = IF called THEN @ + 1 ELSE @,
                        !.sent = IF called /\ kind = None THEN @ + 1 ELSE @,
                        !.ensureFails = IF called THEN @ ELSE @ + 1]
        f  == Append(c.failures, Error(kind, c.attempt))
    IN IF kind = None THEN [c1 EXCEPT !.pc = "returned"]
       ELSE IF ~Caught(kind) THEN [c1 EXCEPT !.pc = "raised", !.raised = Error(kind, c.attempt)]
       ELSE IF ~called THEN c1
       ELSE IF IsLastAttempt(c.attempt, c.retry_count)
            THEN [c1 EXCEPT !.pc = "raised", !.failures = f, !.raised = Reraise(f)]
       ELSE [c1 EXCEPT !.failures = f, !.attempt = @ + 1]

\* The end of one pass of the for loop of call c: kind is the exception of the
\* try block (None if basic_publish returned), called tells whether
\* basic_publish was reached.
AttemptEnd(c, kind, called) ==
    LET c1 == [c EXCEPT !.pubs = IF called THEN @ + 1 ELSE @,
                        !.sent = IF called /\ kind = None THEN @ + 1 ELSE @,
                        !.ensureFails = IF called THEN @ ELSE @ + 1]
        f  == Append(c.failures, Error(kind, c.attempt))
    IN IF kind = None THEN [c1 EXCEPT !.pc = "returned"]
       ELSE IF ~Caught(kind) THEN [c1 EXCEPT !.pc = "raised", !.raised = Error(kind, c.attempt)]
       ELSE IF IsLastAttempt(c.attempt, c.retry_count)
            THEN [c1 EXCEPT !.pc = "raised", !.failures = f, !.raised = Reraise(f)]
       ELSE IF c.attempt + 1 \in AttemptRange(c.retry_count)
            THEN [c1 EXCEPT !.failures = f, !.attempt = @ + 1]
       ELSE [c1 EXCEPT !.failures = f, !.pc = "returned"]

\* ------------------------------------------------------------ observation
\* last: the client operation that ran last, the client's fields before it,
\* and what it did at the broker.
Seen(op, w, err, newConn, newChan, declared, at, pubChan, chanCloses, connCloses) ==
    [op |-> op, preConnection |-> w.connection, preChannel |-> w.channel,
     preConnOpen |-> IsOpenConn(w, w.connection),
     preChanOpen |-> IsOpenChan(w, w.channel),
     err |-> err, newConn |-> newConn, newChan |-> newChan,
     declared |-> declared, pubChan |-> pubChan,
     pubDeclared |-> IF pubChan = 0 THEN FALSE ELSE at.chans[pubChan].declared,
     pubConnection |-> IF pubChan = 0 THEN 0 ELSE at.connection,
     chanCloses |-> chanCloses, connCloses |-> connCloses]

SetWorld(w) ==
    /\ conns' = w.conns
    /\ chans' = w.chans
    /\ connection' = w.connection
    /\ channel' = w.channel

\* ------------------------------------------------------------------ main()
NoMain ==
    [pc |-> "none", dry_run |-> FALSE, root |-> "dir", client |-> FALSE, todo |-> 0,
     yielded |-> 0, file_count |-> 0, error_count |-> 0, exit |-> -1,
     summary |-> FALSE, cause |-> "none", walks |-> 0]

\* As RootIsValid, without the is_dir() test.
RootIsValidExistsOnly(root) == root # "missing"

\* root_path.exists() and root_path.is_dir()
RootIsValid(root) == root = "dir"

\* As NeedsClient, connecting in a dry run too.
NeedsClientAlways(dry_run) == TRUE

\* if not args.dry_run: the client is built and connected
NeedsClient(dry_run) == ~dry_run

\* As AfterConnect, going on to the scan after a failed connect().
AfterConnectIgnoresFailure(f, err) == [f EXCEPT !.pc = "walk", !.client = TRUE]

\* client.connect() in its try block: return 1 on an Exception
AfterConnect(f, err) ==
    IF err # None
    THEN [f EXCEPT !.pc = "returned", !.exit = 1, !.cause = "connect_failed"]
    ELSE [f EXCEPT !.pc = "walk", !.client = TRUE]

\* As SummaryExit, ignoring the error count.
SummaryExitAlwaysZero(error_count) == 0

\* return 0 if error_count == 0 else 1
SummaryExit(error_count) == IF error_count = 0 THEN 0 ELSE 1

\* file_count += 1, and on to the next path
Processed(f) == [f EXCEPT !.pc = "walk", !.file_count = @ + 1]

\* As ProcessFailed, with the error escaping to the outer except clause.
ProcessFailedAbort(f) == [f EXCEPT !.pc = "except_fatal", !.error_count = @ + 1]

\* except Exception: error_count += 1, and on to the next path
ProcessFailed(f) == [f EXCEPT !.pc = "walk", !.error_count = @ + 1]

\* ------------------------------------------------------ the with statement
NoScope ==
    [pc |-> "none", closes |-> 0, body_error |-> None, propagated |-> None]

\* -------------------------------------------------------- the wire format
\* A text is a sequence of code points, a body a sequence of bytes.  A
\* payload is the sequence of the (key, value) items of a dict, a value being
\* a str or an int.
NoWire == [pc |-> "none"]

StrValue(t) == [t |-> "str", v |-> t]
IntValue(n) == [t |-> "int", v |-> n]

KeyPath == <<112, 97, 116, 104>>
KeyName == <<110, 97, 109, 101>>
KeySizeBytes == <<115, 105, 122, 101, 95, 98, 121, 116, 101, 115>>
KeyModifiedTs == <<109, 111, 100, 105, 102, 105, 101, 100, 95, 116, 115>>

\* The dict file_to_message returns.
FileRecord(path, name, size, stamp) ==
    << <<KeyPath, StrValue(path)>>, <<KeyName, StrValue(name)>>,
       <<KeySizeBytes, IntValue(size)>>, <<KeyModifiedTs, StrValue(stamp)>> >>

\* The code points paths are drawn from: a, /, the quote, the backslash, a
\* newline, e-acute, an undecodable byte of a file name (which os.fsdecode
\* turns into a lone low surrogate) and a character outside the basic plane.
Letters == {97, 47, 34, 92, 10, 233, 56448, 128512}
Texts == UNION {[1 .. k -> Letters] : k \in 0 .. MaxText}
Names == {<<97>>, <<233, 34>>}
Sizes == {0, 7, 10, 4096}
Stamps ==
    {<<50, 48, 50, 52, 45, 48, 49, 45, 48, 50, 84, 48, 51, 58, 48, 52, 58, 48, 53>>,
     <<50, 48, 50, 52, 45, 48, 49, 45, 48, 50, 84, 48, 51, 58, 48, 52, 58, 48, 53,
       46, 54, 55, 56, 57, 48, 49>>}
Queues == {"file_events", "test_queue"}

\* f[lo] \o ... \o f[hi]
RECURSIVE ConcatRange(_, _, _)
ConcatRange(f, lo, hi) ==
    IF lo > hi THEN <<>>
    ELSE IF lo = hi THEN f[lo]
    ELSE LET mid == (lo + hi) \div 2
         IN ConcatRange(f, lo, mid) \o ConcatRange(f, mid + 1, hi)

HexDigit(d) == IF d < 10 THEN 48 + d ELSE 87 + d

\* '\\u{0:04x}'
UEscape(n) ==
    <<92, 117, HexDigit(n \div 4096), HexDigit((n \div 256) % 16),
      HexDigit((n \div 16) % 16), HexDigit(n % 16)>>

\* json.dumps with ensure_ascii: the quote, the backslash and everything
\* outside ' ' .. '~' are escaped, code points above U+FFFF as a surrogate pair.
EscapeChar(c) ==
    IF c = 34 THEN <<92, 34>>
    ELSE IF c = 92 THEN <<92, 92>>
    ELSE IF c = 10 THEN <<92, 110>>
    ELSE IF c = 13 THEN <<92, 114>>
    ELSE IF c = 9 THEN <<92, 116>>
    ELSE IF c = 8 THEN <<92, 98>>
    ELSE IF c = 12 THEN <<92, 102>>
    ELSE IF c >= 32 /\ c <= 126 THEN <<c>>
    ELSE IF c < 65536 THEN UEscape(c)
    ELSE UEscape(55296 + ((c - 65536) \div 1024)) \o UEscape(56320 + ((c - 65536) % 1024))

DumpsStr(t) == <<34>> \o ConcatRange([i \in DOMAIN t |-> EscapeChar(t[i])], 1, Len(t)) \o <<34>>

RECURSIVE Digits(_)
Digits(n) == IF n < 10 THEN <<48 + n>> ELSE Digits(n \div 10) \o <<48 + (n % 10)>>

DumpsValue(v) == IF v.t = "str" THEN DumpsStr(v.v) ELSE Digits(v.v)

\* "key": value
DumpsItem(kv) == DumpsStr(kv[1]) \o <<58, 32>> \o DumpsValue(kv[2])

\* the items, separated by ", "
RECURSIVE JoinTo(_, _)
JoinTo(f, n) ==
    IF n = 0 THEN <<>>
    ELSE IF n = 1 THEN f[1]
    ELSE JoinTo(f, n - 1) \o <<44, 32>> \o f[n]

\* json.dumps(payload)
dumps(payload) ==
    <<123>> \o JoinTo([i \in DOMAIN payload |-> DumpsItem(payload[i])], Len(payload)) \o <<125>>

Utf8(c) ==
    IF c < 128 THEN <<c>>
    ELSE IF c < 2048 THEN <<192 + (c \div 64), 128 + (c % 64)>>
    ELSE IF c < 65536
         THEN <<224 + (c \div 4096), 128 + ((c \div 64) % 64), 128 + (c % 64)>>
    ELSE <<240 + (c \div 262144), 128 + ((c \div 4096) % 64),
           128 + ((c \div 64) % 64), 128 + (c % 64)>>

\* text.encode("utf-8")
encode(t) == ConcatRange([i \in DOMAIN t |-> Utf8(t[i])], 1, Len(t))

\* The code point of the UTF-8 sequence that starts at byte i.
DecodeAt(b, i) ==
    IF b[i] < 128 THEN b[i]
    ELSE IF b[i] < 224 THEN (b[i] - 192) * 64 + (b[i + 1] - 128)
    ELSE IF b[i] < 240
         THEN (b[i] - 224) * 4096 + (b[i + 1] - 128) * 64 + (b[i + 2] - 128)
    ELSE (b[i] - 240) * 262144 + (b[i + 1] - 128) * 4096
         + (b[i + 2] - 128) * 64 + (b[i + 3] - 128)

\* body.decode("utf-8"): one code point for each byte that starts a sequence
\* (the continuation bytes are 128 .. 191).
decode(b) ==
    ConcatRange([i \in DOMAIN b |-> IF b[i] \in 128 .. 191 THEN <<>> ELSE <<DecodeAt(b, i)>>],
                1, Len(b))

HexValue(c) == IF c <= 57 THEN c - 48 ELSE IF c >= 97 THEN c - 87 ELSE c - 55

Hex4Value(t, i) ==
    HexValue(t[i]) * 4096 + HexValue(t[i + 1]) * 256 + HexValue(t[i + 2]) * 16 + HexValue(t[i + 3])

IsUEscape(t, i) == i + 5 <= Len(t) /\ t[i] = 92 /\ t[i + 1] = 117

Unescape(e) ==
    IF e = 110 THEN 10 ELSE IF e = 114 THEN 13 ELSE IF e = 116 THEN 9
    ELSE IF e = 98 THEN 8 ELSE IF e = 102 THEN 12 ELSE e

\* The JSON string that starts after the quote before position i: its text
\* and the position after its closing quote.  A \u escape of a high surrogate
\* followed by one of a low surrogate is read as one code point.
RECURSIVE ScanString(_, _, _)
ScanString(t, i, acc) ==
    IF t[i] = 34 THEN [v |-> acc, i |-> i + 1]
    ELSE IF t[i] # 92 THEN ScanString(t, i + 1, Append(acc, t[i]))
    ELSE IF t[i + 1] # 117 THEN ScanString(t, i + 2, Append(acc, Unescape(t[i + 1])))
    ELSE LET u == Hex4Value(t, i + 2)
         IN IF /\ u \in 55296 .. 56319
               /\ IsUEscape(t, i + 6)
               /\ Hex4Value(t, i + 8) \in 56320 .. 57343
            THEN ScanString(t, i + 12,
                     Append(acc, 65536 + (u - 55296) * 1024 + (Hex4Value(t, i + 8) - 56320)))
            ELSE ScanString(t, i + 6, Append(acc, u))

RECURSIVE ScanInt(_, _, _)
ScanInt(t, i, n) ==
    IF i <= Len(t) /\ t[i] \in 48 .. 57
    THEN ScanInt(t, i + 1, n * 10 + (t[i] - 48))
    ELSE [v |-> n, i |-> i]

RECURSIVE SkipWs(_, _)
SkipWs(t, i) == IF i <= Len(t) /\ t[i] \in {32, 9, 10, 13} THEN SkipWs(t, i + 1) ELSE i

ScanValue(t, i) ==
    IF t[i] = 34
    THEN LET r == ScanString(t, i + 1, <<>>) IN [v |-> StrValue(r.v), i |-> r.i]
    ELSE LET r == ScanInt(t, i, 0) IN [v |-> IntValue(r.v), i |-> r.i]

\* The members of a JSON object, i being the position of a key's quote.
RECURSIVE ScanMembers(_, _, _)
ScanMembers(t, i, acc) ==
    LET k    == ScanString(t, i + 1, <<>>)
        v    == ScanValue(t, SkipWs(t, SkipWs(t, k.i) + 1))
        e    == SkipWs(t, v.i)
        acc1 == Append(acc, <<k.v, v.v>>)
    IN IF t[e] = 44 THEN ScanMembers(t, SkipWs(t, e + 1), acc1) ELSE acc1

\* json.loads(text)
loads(t) ==
    LET i == SkipWs(t, 2)
    IN IF t[i] = 125 THEN <<>> ELSE ScanMembers(t, i, <<>>)

\* Two dicts are equal when they map the same keys to the same values.
AsDict(items) == {items[i] : i \in DOMAIN items}

\* As PublishCall, with the queue name given as the exchange.
PublishCallToExchange(queue, payload) ==
    [exchange |-> queue, routing_key |-> "", body |-> encode(dumps(payload)),
     properties |-> [content_type |-> "application/json",
                     delivery_mode |-> PersistentDeliveryMode]]

\* The basic_publish call of publish_json.
PublishCall(queue, payload) ==
    [exchange |-> "", routing_key |-> queue, body |-> encode(dumps(payload)),
     properties |-> [content_type |-> "application/json",
                     delivery_mode |-> PersistentDeliveryMode]]

\* ------------------------------------------------------------- iter_files
\* A tree is the content of the root directory: entries 1 .. n, each inside
\* the root (parent 0) or inside an earlier entry that is a directory.  An
\* entry is a file, a directory, a symbolic link to a file or to a directory,
\* a symbolic link whose target is missing, or an entry whose examination
\* raises PermissionError.
NoWalk == [pc |-> "none"]

EntryKinds == {"file", "dir", "link_file", "link_dir", "broken_link", "denied"}

\* The trees of n entries.
TreesOf(n) ==
    UNION {{[n |-> n, parent |-> p, kind |-> k] :
                p \in {q \in [1 .. n -> 0 .. n] :
                          \A i \in 1 .. n : q[i] < i /\ (q[i] # 0 => k[q[i]] = "dir")}} :
           k \in [1 .. n -> EntryKinds]}

Trees == UNION {TreesOf(n) : n \in 0 .. MaxEntries}

RootKinds == {"dir", "file", "missing"}

\* The entries directly inside directory d (0 is the root), in listing order.
Children(t, d) == SelectSeq([i \in 1 .. t.n |-> i], LAMBDA i : t.parent[i] = d)

\* The directories the "**" part of rglob visits from d: d itself, then those
\* below each directory inside d; a symbolic link to a directory is not followed.
RECURSIVE DirsFrom(_, _)
DirsFrom(t, d) ==
    LET sub == SelectSeq(Children(t, d), LAMBDA i : t.kind[i] = "dir")
    IN <<d>> \o ConcatRange([k \in DOMAIN sub |-> DirsFrom(t, sub[k])], 1, Len(sub))

\* As rglob, listing the root directory only.
rglobFlat(t) == Children(t, 0)

\* root.rglob("*"): every entry of every directory visited.
rglob(t) ==
    LET ds == DirsFrom(t, 0)
    IN ConcatRange([k \in DOMAIN ds |-> Children(t, ds[k])], 1, Len(ds))

\* As Examine, without the inner except clause.
ExamineUnguarded(kind) ==
    IF kind = "denied" THEN "raise"
    ELSE IF kind \in {"dir", "link_dir"} THEN "skip"
    ELSE IF kind = "broken_link" THEN "skip"
    ELSE "yield"

\* The body of the for loop for one path: is_dir() raising PermissionError is
\* caught by the inner except clause (continue); a directory and a broken
\* symbolic link are skipped; anything else is yielded.
Examine(kind) ==
    IF kind = "denied" THEN "skip"
    ELSE IF kind \in {"dir", "link_dir"} THEN "skip"
    ELSE IF kind = "broken_link" THEN "skip"
    ELSE "yield"

\* The generator runs from its loop header to the next yield, to the end of
\* the loop, or to an exception that leaves it.
RECURSIVE Resume(_)
Resume(g) ==
    IF g.pending = <<>> THEN [g EXCEPT !.pc = "done"]
    ELSE LET e    == Head(g.pending)
             rest == [g EXCEPT !.pending = Tail(g.pending)]
             what == Examine(g.tree.kind[e])
         IN IF what = "yield"
            THEN [rest EXCEPT !.pc = "suspended", !.yielded = Append(@, e)]
            ELSE IF what = "raise"
            THEN [rest EXCEPT !.pc = "raised", !.raised = "PermissionError"]
            ELSE Resume(rest)

\* The first next(): the generator body starts, with the is_dir() test of the
\* root as it is now.
Start(g) ==
    IF g.root # "dir"
    THEN [g EXCEPT !.pc = "raised", !.started = TRUE, !.raised = "ValueError"]
    ELSE Resume([g EXCEPT !.started = TRUE, !.pending = rglob(g.tree)])

\* --------------------------------------------------- RabbitConfig.from_env
\* A value is a str, an int or None; an environment variable is unset or set
\* to a text; a command-line option is absent or given with a text.
NoConfig == [pc |-> "none"]

Settings == {"host", "port", "username", "password", "virtual_host", "queue"}

NoneValue == [t |-> "none", v |-> 0]
Str(x) == [t |-> "str", v |-> x]
Num(n) == [t |-> "int", v |-> n]
Unset == [set |-> FALSE, v |-> ""]
SetTo(x) == [set |-> TRUE, v |-> x]

\* int(text) for a text of decimal digits
int(text) == ScanInt(text, 1, 0).v

\* The values a caller may pass to from_env for setting s.
ExplicitValues(s) ==
    IF s = "port" THEN {NoneValue, Num(0), Num(5673)}
    ELSE {NoneValue, Str(""), Str("arg")}

\* What the environment may hold for setting s.
EnvValues(s) ==
    IF s = "port" THEN {Unset, SetTo(<<49, 53, 54, 55, 50>>)}
    ELSE {Unset, SetTo("env")}

\* What the command line may hold for setting s.
ArgvValues(s) ==
    IF s = "port" THEN {Unset, SetTo(<<53, 54, 55, 51>>)}
    ELSE {Unset, SetTo("cli")}

\* The arguments of a call of from_env, one value for each setting.
ExplicitInputs ==
    [host : ExplicitValues("host"), port : ExplicitValues("port"),
     username : ExplicitValues("username"), password : ExplicitValues("password"),
     virtual_host : ExplicitValues("virtual_host"), queue : ExplicitValues("queue")]

\* The environments.
EnvInputs ==
    [host : EnvValues("host"), port : EnvValues("port"),
     username : EnvValues("username"), password : EnvValues("password"),
     virtual_host : EnvValues("virtual_host"), queue : EnvValues("queue")]

\* The command lines.
ArgvInputs ==
    [host : ArgvValues("host"), port : ArgvValues("port"),
     username : ArgvValues("username"), password : ArgvValues("password"),
     virtual_host : ArgvValues("virtual_host"), queue : ArgvValues("queue")]

\* The second argument of each os.getenv call of from_env.
EnvDefault ==
    [host |-> "localhost", port |-> <<53, 54, 55, 50>>, username |-> "guest",
     password |-> "guest", virtual_host |-> "/", queue |-> "file_events"]

\* The default= of each broker option of parse_args.
ArgDefault ==
    [host |-> Str("localhost"), port |-> Num(5672), username |-> Str("guest"),
     password |-> Str("guest"), virtual_host |-> Str("/"), queue |-> Str("file_events")]

\* The truth value of x in "x or ...".
Truthy(x) ==
    IF x.t = "none" THEN FALSE
    ELSE IF x.t = "int" THEN x.v # 0
    ELSE x.v # ""

\* os.getenv(name, default), and int() of it for the port
FromEnvironment(s, env) ==
    LET raw == IF env[s].set THEN env[s].v ELSE EnvDefault[s]
    IN IF s = "port" THEN Num(int(raw)) ELSE Str(raw)

\* RabbitConfig.from_env: x or os.getenv(...) for each setting
from_env(args, env) ==
    [s \in Settings |-> IF Truthy(args[s]) THEN args[s] ELSE FromEnvironment(s, env)]

\* parse_args: the value of each broker option, type=int for the port
parse_args(argv) ==
    [s \in Settings |->
        IF ~argv[s].set THEN ArgDefault[s]
        ELSE IF s = "port" THEN Num(int(argv[s].v)) ELSE Str(argv[s].v)]

Init ==
    /\ conns = <<>>
    /\ chans = <<>>
    /\ connection = 0
    /\ channel = 0
    /\ pj = IdleCall
    /\ last = Seen("init", [connection |-> 0, channel |-> 0, conns |-> <<>>, chans |-> <<>>], None, 0, 0, 0,
                   [connection |-> 0], 0, 0, 0)
    /\ wire = NoWire
    /\ walk = NoWalk
    /\ cfg = NoConfig
    /\ driver \in {"api", "main", "with"}
    /\ scope = IF driver = "with" THEN [NoScope EXCEPT !.pc = "enter"] ELSE NoScope
    /\ \/ /\ driver \in {"api", "with"}
          /\ m = NoMain
       \/ /\ driver = "main"
          /\ \E d \in BOOLEAN, r \in {"dir", "file", "missing"}, n \in 0 .. MaxFiles :
                m = [NoMain EXCEPT !.pc = "validate", !.dry_run = d, !.root = r, !.todo = n]

\* ------------------------------------------------- the client's operations
\* client.connect(), with r its result
DoConnect(o) ==
    LET r == connect(World, o)
    IN /\ SetWorld(r.w)
       /\ last' = Seen("connect", World, r.err, r.newConn, r.newChan,
                       r.declared, r.w, 0, 0, 0)

\* client.close()
DoClose(o) ==
    LET r == close(World, o)
    IN /\ SetWorld(r.w)
       /\ last' = Seen("close", World, r.err, 0, 0, 0, r.w, 0,
                       r.chanCloses, r.connCloses)

\* One pass of the for loop of publish_json: _ensure_connection, then
\* basic_publish on self._channel, then the except clause.
PublishAttempt ==
    /\ pj.pc = "running"
    /\ \E o \in EnsureOutcomes(World) :
          LET e == ensure_connection(World, o)
          IN \E p \in (IF e.err = None THEN PublishOutcomes(e.w) ELSE {None}) :
                LET called == e.err = None
                    w2     == IF called THEN basic_publish(e.w, p) ELSE e.w
                    kind   == IF called THEN p ELSE e.err
                IN /\ SetWorld(w2)
                   /\ pj' = AttemptEnd(pj, kind, called)
                   /\ last' = Seen("attempt", World, kind,
                                   e.newConn, e.newChan, e.declared, e.w,
                                   IF called THEN e.w.channel ELSE 0, 0, 0)
    /\ UNCHANGED <<driver, m, others>>

\* The connections and channels the client can reach through its fields.
HeldConns == {c \in DOMAIN conns : c = connection \/ (channel # 0 /\ chans[channel].conn = c)}
HeldChans == {h \in DOMAIN chans : h = channel}

\* The peer closes a connection the client uses, at any time.
PeerCloseConnection ==
    /\ \E c \in HeldConns :
          /\ conns[c]
          /\ SetWorld(DropConn(World, c))
    /\ UNCHANGED <<pj, last, driver, m, others>>

\* The broker closes the channel the client uses, at any time.
PeerCloseChannel ==
    /\ \E h \in HeldChans :
          /\ chans[h].open
          /\ SetWorld(DropChan(World, h))
    /\ UNCHANGED <<pj, last, driver, m, others>>

\* ---------------------------------------------- any caller of the client
RetryCounts == (-1) .. MaxRetry

ApiConnect ==
    /\ driver = "api"
    /\ pj.pc # "running"
    /\ \E o \in ConnectOutcomes(World) : DoConnect(o)
    /\ pj' = IdleCall
    /\ UNCHANGED <<driver, m, others>>

ApiPublishJson ==
    /\ driver = "api"
    /\ pj.pc # "running"
    /\ \E n \in RetryCounts : pj' = BeginCall(n)
    /\ UNCHANGED <<conns, chans, connection, channel, last, driver, m, others>>

ApiClose ==
    /\ driver = "api"
    /\ pj.pc # "running"
    /\ \E o \in CloseOutcomes(World) : DoClose(o)
    /\ pj' = IdleCall
    /\ UNCHANGED <<driver, m, others>>

\* ------------------------------------------------------------------ main()
\* ------------------------------------ with RabbitClient(cfg) as client: ...
\* As ExitSuppresses, for an __exit__ that returns True.
ExitSuppressesAlways == TRUE

\* __exit__ ends after self.close() without a return statement: its result
\* is None, which tells the with statement not to suppress the exception.
ExitSuppresses == FALSE

\* __enter__: self.connect(); return self.  An exception of connect() leaves
\* the with statement before the body, and __exit__ is not called.
WithEnter ==
    /\ driver = "with"
    /\ scope.pc = "enter"
    /\ \E o \in ConnectOutcomes(World) :
          /\ DoConnect(o)
          /\ scope' = IF connect(World, o).err # None
                      THEN [scope EXCEPT !.pc = "raised", !.propagated = connect(World, o).err]
                      ELSE [scope EXCEPT !.pc = "body"]
    /\ UNCHANGED <<pj, driver, m, wire, walk, cfg>>

\* The body calls client.publish_json(payload).
WithBodyPublish ==
    /\ driver = "with"
    /\ scope.pc = "body"
    /\ pj.pc # "running"
    /\ pj' = BeginCall(DefaultRetryCount)
    /\ UNCHANGED <<conns, chans, connection, channel, last, driver, m, others>>

\* The body ends: normally, by an exception of its own, or by the exception
\* the publish_json call it just made has raised.
WithBodyEnds ==
    /\ driver = "with"
    /\ scope.pc = "body"
    /\ pj.pc # "running"
    /\ \E e \in {None, OtherErr} \cup (IF pj.pc = "raised" THEN {pj.raised.kind} ELSE {}) :
          scope' = [scope EXCEPT !.pc = "exit", !.body_error = e]
    /\ pj' = IdleCall
    /\ UNCHANGED <<conns, chans, connection, channel, last, driver, m, wire, walk, cfg>>

\* __exit__(exc_type, exc_val, exc_tb): self.close()
WithExit ==
    /\ driver = "with"
    /\ scope.pc = "exit"
    /\ \E o \in CloseOutcomes(World) : DoClose(o)
    /\ scope' = [scope EXCEPT !.pc = "left", !.closes = @ + 1,
                              !.propagated = IF ExitSuppresses THEN None ELSE scope.body_error]
    /\ UNCHANGED <<pj, driver, m, wire, walk, cfg>>

\* ------------------------------------------------------ main()'s steps
\* root_path.exists() / root_path.is_dir(): return 1 on an invalid root
MainValidateRoot ==
    /\ driver = "main"
    /\ m.pc = "validate"
    /\ m' = IF ~RootIsValid(m.root)
            THEN [m EXCEPT !.pc = "returned", !.exit = 1, !.cause = "bad_root"]
            ELSE [m EXCEPT !.pc = IF NeedsClient(m.dry_run) THEN "connect" ELSE "walk"]
    /\ UNCHANGED <<conns, chans, connection, channel, pj, last, driver, others>>

\* client = RabbitClient(rabbit_config); client.connect(); return 1 on Exception
MainConnect ==
    /\ driver = "main"
    /\ m.pc = "connect"
    /\ \E o \in ConnectOutcomes(World) :
          /\ DoConnect(o)
          /\ m' = AfterConnect(m, connect(World, o).err)
    /\ UNCHANGED <<pj, driver, others>>

\* for file_path in iter_files(root_path): the walker yields a path, is
\* exhausted, or raises; walks counts the paths asked of it.
MainWalk ==
    /\ driver = "main"
    /\ m.pc = "walk"
    /\ \E step \in {"next", "fatal"} :
          m' = IF step = "fatal"
               THEN [m EXCEPT !.pc = "except_fatal", !.cause = "fatal", !.walks = @ + 1]
               ELSE IF m.todo > 0
               THEN [m EXCEPT !.pc = "extract", !.todo = @ - 1, !.yielded = @ + 1,
                              !.walks = @ + 1]
               ELSE [m EXCEPT !.pc = "finally", !.cause = "completed", !.walks = @ + 1]
    /\ UNCHANGED <<conns, chans, connection, channel, pj, last, driver, others>>

\* message = file_to_message(file_path), then the dry-run log or the call of
\* client.publish_json(message); an Exception counts an error.
MainExtract ==
    /\ driver = "main"
    /\ m.pc = "extract"
    /\ \E extracted \in BOOLEAN :
          IF ~extracted
          THEN /\ m' = ProcessFailed(m)
               /\ UNCHANGED pj
          ELSE IF m.dry_run
          THEN /\ m' = Processed(m)
               /\ UNCHANGED pj
          ELSE /\ m' = [m EXCEPT !.pc = "publish"]
               /\ pj' = BeginCall(DefaultRetryCount)
    /\ UNCHANGED <<conns, chans, connection, channel, last, driver, others>>

\* client.publish_json(message) has returned or raised: file_count += 1, or
\* except Exception: error_count += 1
MainPublished ==
    /\ driver = "main"
    /\ m.pc = "publish"
    /\ pj.pc \in {"returned", "raised"}
    /\ m' = IF pj.pc = "returned" THEN Processed(m) ELSE ProcessFailed(m)
    /\ pj' = IdleCall
    /\ UNCHANGED <<conns, chans, connection, channel, last, driver, others>>

\* KeyboardInterrupt inside the try block; no except Exception clause catches it.
MainInterrupt ==
    /\ driver = "main"
    /\ m.pc \in {"walk", "extract", "publish"}
    /\ m' = [m EXCEPT !.pc = "except_kbd", !.cause = "interrupted"]
    /\ pj' = IdleCall
    /\ UNCHANGED <<conns, chans, connection, channel, last, driver, others>>

\* except KeyboardInterrupt / except Exception: if client: client.close();
\* return 130 / return 1
MainExcept ==
    /\ driver = "main"
    /\ m.pc \in {"except_kbd", "except_fatal"}
    /\ IF m.client
       THEN \E o \in CloseOutcomes(World) : DoClose(o)
       ELSE UNCHANGED <<conns, chans, connection, channel, last>>
    /\ m' = [m EXCEPT !.pc = "finally",
                      !.exit = IF m.pc = "except_kbd" THEN ExitInterrupted ELSE 1]
    /\ UNCHANGED <<pj, driver, others>>

\* finally: if client: client.close(); then the pending return, or the summary
MainFinally ==
    /\ driver = "main"
    /\ m.pc = "finally"
    /\ IF m.client
       THEN \E o \in CloseOutcomes(World) : DoClose(o)
       ELSE UNCHANGED <<conns, chans, connection, channel, last>>
    /\ m' = [m EXCEPT !.pc = IF m.exit = -1 THEN "summary" ELSE "returned"]
    /\ UNCHANGED <<pj, driver, others>>

\* the summary log lines and return 0 if error_count == 0 else 1
MainSummary ==
    /\ driver = "main"
    /\ m.pc = "summary"
    /\ m' = [m EXCEPT !.pc = "returned", !.summary = TRUE,
                      !.exit = SummaryExit(m.error_count)]
    /\ UNCHANGED <<conns, chans, connection, channel, pj, last, driver, others>>

Next ==
    \/ ApiConnect
    \/ ApiPublishJson
    \/ ApiClose
    \/ PublishAttempt
    \/ PeerCloseConnection
    \/ PeerCloseChannel
    \/ WithEnter
    \/ WithBodyPublish
    \/ WithBodyEnds
    \/ WithExit
    \/ MainValidateRoot
    \/ MainConnect
    \/ MainWalk
    \/ MainExtract
    \/ MainPublished
    \/ MainInterrupt
    \/ MainExcept
    \/ MainFinally
    \/ MainSummary

Spec == Init /\ [][Next]_vars

\* ------------------------------------------- one message, sent and read back
InitWire ==
    /\ conns = <<>>
    /\ chans = <<>>
    /\ connection = 0
    /\ channel = 0
    /\ pj = IdleCall
    /\ last = Seen("init", [connection |-> 0, channel |-> 0, conns |-> <<>>, chans |-> <<>>], None, 0, 0, 0,
                   [connection |-> 0], 0, 0, 0)
    /\ driver = "wire"
    /\ m = NoMain
    /\ scope = NoScope
    /\ walk = NoWalk
    /\ cfg = NoConfig
    /\ \E q \in Queues, path \in Texts, name \in Names, size \in Sizes, stamp \in Stamps :
          wire = [pc |-> "ready", queue |-> q,
                  payload |-> FileRecord(path, name, size, stamp),
                  call |-> PublishCall(q, <<>>), parsed |-> <<>>]

\* publish_json(payload) hands the message to the channel.
WirePublish ==
    /\ wire.pc = "ready"
    /\ wire' = [wire EXCEPT !.pc = "published",
                            !.call = PublishCall(wire.queue, wire.payload)]
    /\ UNCHANGED <<conns, chans, connection, channel, pj, last, driver, m, scope, walk, cfg>>

\* A consumer reads the body back: json.loads(body.decode("utf-8"))
WireConsume ==
    /\ wire.pc = "published"
    /\ wire' = [wire EXCEPT !.pc = "consumed", !.parsed = loads(decode(wire.call.body))]
    /\ UNCHANGED <<conns, chans, connection, channel, pj, last, driver, m, scope, walk, cfg>>

NextWire ==
    \/ WirePublish
    \/ WireConsume

SpecWire == InitWire /\ [][NextWire]_vars

\* --------------------------------------------------- one walk of iter_files
InitWalk ==
    /\ conns = <<>>
    /\ chans = <<>>
    /\ connection = 0
    /\ channel = 0
    /\ pj = IdleCall
    /\ last = Seen("init", [connection |-> 0, channel |-> 0, conns |-> <<>>, chans |-> <<>>], None, 0, 0, 0,
                   [connection |-> 0], 0, 0, 0)
    /\ driver = "walk"
    /\ m = NoMain
    /\ scope = NoScope
    /\ wire = NoWire
    /\ cfg = NoConfig
    /\ \E t \in Trees, r \in RootKinds :
          walk = [pc |-> "idle", tree |-> t, root |-> r, rootAtCall |-> "none",
                  started |-> FALSE, pending |-> <<>>, yielded |-> <<>>,
                  raised |-> None]

\* iter_files(root): calling a generator function runs none of its body.
WalkCall ==
    /\ walk.pc = "idle"
    /\ walk' = [walk EXCEPT !.pc = "suspended", !.rootAtCall = walk.root]
    /\ UNCHANGED <<conns, chans, connection, channel, pj, last, driver, m, scope, wire, cfg>>

\* The filesystem changes between the call and the first next(): the root
\* path becomes something else.
WalkRootChanges ==
    /\ walk.pc = "suspended"
    /\ ~walk.started
    /\ walk.root = walk.rootAtCall
    /\ \E r \in RootKinds \ {walk.root} : walk' = [walk EXCEPT !.root = r]
    /\ UNCHANGED <<conns, chans, connection, channel, pj, last, driver, m, scope, wire, cfg>>

\* next() on the generator
WalkNext ==
    /\ walk.pc = "suspended"
    /\ walk' = IF walk.started THEN Resume(walk) ELSE Start(walk)
    /\ UNCHANGED <<conns, chans, connection, channel, pj, last, driver, m, scope, wire, cfg>>

\* next() on the generator when rglob itself raises OSError: the outer except
\* clause logs and re-raises.
WalkFatal ==
    /\ walk.pc = "suspended"
    /\ walk.root = "dir"
    /\ walk' = [walk EXCEPT !.pc = "raised", !.started = TRUE, !.raised = "OSError"]
    /\ UNCHANGED <<conns, chans, connection, channel, pj, last, driver, m, scope, wire, cfg>>

NextWalk ==
    \/ WalkCall
    \/ WalkRootChanges
    \/ WalkNext
    \/ WalkFatal

SpecWalk == InitWalk /\ [][NextWalk]_vars

\* ------------------------------------- one resolution of the broker settings
InitConfig ==
    /\ conns = <<>>
    /\ chans = <<>>
    /\ connection = 0
    /\ channel = 0
    /\ pj = IdleCall
    /\ last = Seen("init", [connection |-> 0, channel |-> 0, conns |-> <<>>, chans |-> <<>>], None, 0, 0, 0,
                   [connection |-> 0], 0, 0, 0)
    /\ driver = "config"
    /\ m = NoMain
    /\ scope = NoScope
    /\ wire = NoWire
    /\ walk = NoWalk
    /\ \E env \in EnvInputs :
          /\ \/ \E args \in ExplicitInputs :
                   /\ cfg = [pc |-> "ready", via |-> "from_env", env |-> env,
                             args |-> args, argv |-> [s \in Settings |-> Unset],
                             result |-> args]
             \/ \E argv \in ArgvInputs :
                   /\ cfg = [pc |-> "ready", via |-> "main", env |-> env,
                             args |-> [s \in Settings |-> NoneValue], argv |-> argv,
                             result |-> [s \in Settings |-> NoneValue]]

\* A caller of RabbitConfig.from_env(host=..., port=..., ...)
ConfigFromEnv ==
    /\ cfg.pc = "ready"
    /\ cfg.via = "from_env"
    /\ cfg' = [cfg EXCEPT !.pc = "resolved", !.result = from_env(cfg.args, cfg.env)]
    /\ UNCHANGED <<conns, chans, connection, channel, pj, last, driver, m, scope, wire, walk>>

\* main: args = parse_args(); RabbitConfig.from_env(host=args.rabbit_host, ...)
ConfigMain ==
    /\ cfg.pc = "ready"
    /\ cfg.via = "main"
    /\ cfg' = [cfg EXCEPT !.pc = "resolved", !.args = parse_args(cfg.argv),
                          !.result = from_env(parse_args(cfg.argv), cfg.env)]
    /\ UNCHANGED <<conns, chans, connection, channel, pj, last, driver, m, scope, wire, walk>>

NextConfig ==
    \/ ConfigFromEnv
    \/ ConfigMain

SpecConfig == InitConfig /\ [][NextConfig]_vars

\* ================================================================== claims

\* C1: every basic_publish is made on a channel on which queue_declare
\* (queue, durable=True) has succeeded before.
C1_DeclaredBeforePublish ==
    last.pubChan # 0 => last.pubDeclared

\* C1 witness: a publish on a channel that the same attempt had to open.
C1_Witness ==
    /\ last.op = "attempt"
    /\ last.pubChan # 0
    /\ last.newChan = last.pubChan
    /\ last.err = None

\* With transport/channel-level failures only, this is how far a call can be.
OnlyCaughtFailures == pj.raised.kind \in {None, ConnErr, ChanErr}

\* Where a call of publish_json with retry_count >= 1 can be: running with
\* every earlier attempt failed, returned right after its one success, or
\* raised after retry_count failures.
C2_CallState ==
    (pj.retry_count >= 1 /\ OnlyCaughtFailures) =>
        /\ pj.pubs <= pj.retry_count
        /\ pj.pubs + pj.ensureFails <= pj.retry_count
        /\ pj.pc = "running" =>
              /\ pj.attempt \in AttemptRange(pj.retry_count)
              /\ pj.pubs + pj.ensureFails = pj.attempt
              /\ Len(pj.failures) = pj.attempt
              /\ pj.sent = 0
        /\ pj.pc = "returned" =>
              /\ pj.sent = 1
              /\ Len(pj.failures) = pj.attempt
              /\ pj.pubs + pj.ensureFails = pj.attempt + 1
              /\ pj.attempt \in AttemptRange(pj.retry_count)
        /\ pj.pc = "raised" =>
              /\ pj.sent = 0
              /\ Len(pj.failures) = pj.retry_count
              /\ pj.pubs + pj.ensureFails = pj.retry_count

\* In main a call that returns counts the file as processed.
C2_ReturnedIsProcessed ==
    (driver = "main" /\ m.pc = "publish" /\ pj.pc = "returned" /\ m'.pc = "walk") =>
        /\ m'.file_count = m.file_count + 1
        /\ m'.error_count = m.error_count

\* C2: for retry_count n >= 1 and transport/channel-level failures, one call
\* of publish_json makes at most n attempts and at most n basic_publish
\* calls; it returns right after the first successful attempt, otherwise it
\* raises after the n-th failed attempt; and in main a call that returns
\* counts the file as processed, not as an error.
C2_BoundedRetry == []C2_CallState /\ [][C2_ReturnedIsProcessed]_vars

\* C2 witness: in main, basic_publish has failed twice and succeeded the third
\* time, and publish_json has returned.
C2_Witness ==
    /\ driver = "main"
    /\ m.pc = "publish"
    /\ pj.pc = "returned"
    /\ pj.retry_count = DefaultRetryCount
    /\ Len(pj.failures) = 2
    /\ pj.pubs = 3

\* The counters of main against the paths yielded so far.
C3_Counts ==
    driver = "main" =>
        /\ m.pc = "walk" => m.file_count + m.error_count = m.yielded
        /\ m.pc \in {"extract", "publish"} => m.file_count + m.error_count = m.yielded - 1
        /\ m.cause = "completed" =>
              /\ m.file_count + m.error_count = m.yielded
              /\ m.todo = 0

\* The end of the processing of one path, other than by an interruption.
C3_PathStep ==
    (driver = "main" /\ m.pc \in {"extract", "publish"}
        /\ m'.pc \notin {"extract", "publish", "except_kbd"}) =>
        /\ m'.pc = "walk"
        /\ m'.todo = m.todo
        /\ \/ m'.file_count = m.file_count + 1 /\ m'.error_count = m.error_count
           \/ m'.file_count = m.file_count /\ m'.error_count = m.error_count + 1
        /\ (m.pc = "publish" /\ pj.pc = "raised") => m'.error_count = m.error_count + 1

\* C3: in the loop of main an error of extraction or publishing is caught and
\* counted: the path being processed raises exactly one of the two counters
\* by one and the loop goes on to the next path; at the end of the walk
\* files processed + errors is the number of paths yielded.
C3_BadFileDoesNotAbort == []C3_Counts /\ [][C3_PathStep]_vars

\* C3 witness: a completed non-dry run with one path failed and one path
\* processed.
C3_Witness ==
    /\ driver = "main"
    /\ ~m.dry_run
    /\ m.cause = "completed"
    /\ m.error_count = 1
    /\ m.file_count = 1

\* C4: when main returns after the Publisher was connected, close() was the
\* last operation on the Publisher and the connection it holds is not open.
C4_ClosedOnReturn ==
    (driver = "main" /\ m.pc = "returned" /\ m.client) =>
        /\ last.op = "close"
        /\ ~IsOpenConn(World, connection)

\* C5: the exit status of main is 0 exactly for a valid root, an established
\* connection (unless dry-run), a completed walk and no error; 130 exactly
\* for an interrupted scan; 1 in every other case.
C5_ExitStatus ==
    (driver = "main" /\ m.pc = "returned") =>
        LET clean == /\ m.root = "dir"
                     /\ m.dry_run \/ m.client
                     /\ m.cause = "completed"
                     /\ m.error_count = 0
        IN /\ m.exit \in {0, 1, ExitInterrupted}
           /\ m.exit = 0 <=> clean
           /\ m.exit = ExitInterrupted <=> m.cause = "interrupted"
           /\ m.exit = 1 <=> (~clean /\ m.cause # "interrupted")

\* C5 witness: a walk that completed with an error counted, returning 1.
C5_Witness ==
    /\ driver = "main"
    /\ m.pc = "returned"
    /\ m.cause = "completed"
    /\ m.error_count > 0
    /\ m.exit = 1

\* C6: a connect() that fails on an Unconnected client leaves it holding no
\* connection and no channel.
C6_FailedConnectStaysUnconnected ==
    (last.op = "connect" /\ last.err # None
        /\ last.preConnection = 0 /\ last.preChannel = 0) =>
        /\ connection = 0
        /\ channel = 0

\* C7: an attempt that finds the connection closed (or absent) and reaches
\* basic_publish has opened a new connection, a new channel on it, declared
\* the queue on that channel, and publishes on that channel.
C7_ReconnectBeforePublish ==
    (last.op = "attempt" /\ ~last.preConnOpen /\ last.pubChan # 0) =>
        /\ last.newConn # 0
        /\ last.newConn # last.preConnection
        /\ last.newChan # 0
        /\ chans[last.newChan].conn = last.newConn
        /\ last.declared = last.newChan
        /\ last.pubChan = last.newChan
        /\ last.pubConnection = last.newConn
        /\ last.preConnection # 0 => Len(conns) >= 2

\* C7 witness: a successful publish by a client whose connection had been
\* closed after connect().
C7_Witness ==
    /\ last.op = "attempt"
    /\ last.preConnection # 0
    /\ ~last.preConnOpen
    /\ last.pubChan # 0
    /\ last.err = None

\* C8 as claimed: an attempt that finds the channel closed on an open
\* connection and reaches basic_publish has opened a new connection.
C8_ChannelClosedReconnects ==
    (last.op = "attempt" /\ last.preConnOpen /\ last.preChannel # 0
        /\ ~last.preChanOpen /\ last.pubChan # 0) =>
        last.newConn # 0

\* C8: an attempt that finds the channel closed on an open connection opens
\* no connection; it opens a new channel on the connection it holds,
\* declares the queue on it and publishes on it.
C8_ChannelClosedReopens ==
    (last.op = "attempt" /\ last.preConnOpen /\ ~last.preChanOpen) =>
        /\ last.newConn = 0
        /\ connection = last.preConnection
        /\ last.pubChan # 0 =>
              /\ last.newChan # 0
              /\ last.newChan # last.preChannel
              /\ chans[last.newChan].conn = last.preConnection
              /\ last.declared = last.newChan
              /\ last.pubChan = last.newChan

\* C8 witness: a successful publish after the channel alone was closed.
C8_Witness ==
    /\ last.op = "attempt"
    /\ last.preConnOpen
    /\ last.preChannel # 0
    /\ ~last.preChanOpen
    /\ last.pubChan # 0
    /\ last.err = None

\* C9 as claimed: a call that raises on exhausting its attempts has called
\* basic_publish retry_count times.
C9_RaisesAfterNPublishes ==
    (pj.pc = "raised" /\ Caught(pj.raised.kind)) => pj.pubs = pj.retry_count

\* C9: a reconnect that succeeds is followed by basic_publish in the same
\* attempt; a reconnect that fails uses the attempt up, so the attempts of a
\* call are its basic_publish calls plus its failed reconnects.
C9_ReconnectAccounting ==
    /\ (last.op = "attempt" /\ last.declared # 0) => last.pubChan = last.declared
    /\ (pj.retry_count >= 1 /\ OnlyCaughtFailures) =>
          /\ pj.pc = "running" => pj.pubs + pj.ensureFails = pj.attempt
          /\ pj.pc = "raised" => pj.pubs + pj.ensureFails = pj.retry_count

\* C9 witness: a call that raised after a failed reconnect and fewer than
\* retry_count basic_publish calls.
C9_Witness ==
    /\ pj.pc = "raised"
    /\ Caught(pj.raised.kind)
    /\ pj.ensureFails >= 1
    /\ pj.pubs >= 1
    /\ pj.pubs < pj.retry_count

\* The exception of a call that used its attempts up.
C10_RaisedIsLast ==
    (pj.pc = "raised" /\ Caught(pj.raised.kind)) =>
        /\ Len(pj.failures) = pj.retry_count
        /\ pj.raised = pj.failures[pj.retry_count]
        /\ pj.raised.at = pj.retry_count - 1
        /\ \A i \in 1 .. (pj.retry_count - 1) : pj.failures[i] # pj.raised

\* The start of a call.
C10_FreshBudget ==
    (pj.pc # "running" /\ pj'.pc = "running") =>
        /\ pj'.attempt = 0
        /\ pj'.failures = <<>>
        /\ pj'.pubs = 0
        /\ pj'.ensureFails = 0
        /\ pj'.retry_count >= 1

\* C10: a call whose attempts all fail raises the exception of its last
\* attempt, and the next call starts from attempt 0 with nothing carried over.
C10_LastCauseRaised == []C10_RaisedIsLast /\ [][C10_FreshBudget]_vars

\* C10 witness: a call of two or more attempts that raised, whose first
\* failure was of another class than the exception raised.
C10_Witness ==
    /\ pj.pc = "raised"
    /\ pj.retry_count >= 2
    /\ Caught(pj.raised.kind)
    /\ pj.failures[1].kind # pj.raised.kind

\* C11: publish_json retries after a basic_publish that raised, whatever the
\* class of the exception: a call raises only from its last attempt.
C11_RetriesAnyException ==
    pj.pc = "raised" => IsLastAttempt(pj.attempt, pj.retry_count)

C12_AfterClose ==
    (last.op = "close" /\ last.preConnection # 0 /\ last'.op = "attempt")
        => (last'.newConn = 0 /\ last'.pubChan = 0)

\* C12: close() is final: a publish_json that follows the close() of a client
\* that had connected opens no new connection and publishes no message.
C12_ClosedIsTerminal == [][C12_AfterClose]_vars

\* C13: close() never raises, whatever the state of the client and also when
\* closing the channel or the connection fails.
C13_CloseNeverRaises ==
    last.op = "close" => last.err = None

\* A close() whose channel.close() raised on an open connection.
C13_Witness ==
    /\ last.op = "close"
    /\ last.preConnOpen /\ last.preChanOpen
    /\ last.chanCloses = 1 /\ last.connCloses = 0

C14_ClosesBoth ==
    (last.op = "close" /\ last.preConnOpen /\ last.preChanOpen)
        => last.chanCloses = 1 /\ last.connCloses = 1

C14_SecondCloseIdle ==
    (last.op = "close" /\ last'.op = "close")
        => /\ last'.chanCloses = 0 /\ last'.connCloses = 0
           /\ UNCHANGED <<conns, chans, connection, channel>>

\* C14: close() on a connected client closes the channel and then the
\* connection, once each, and a second close() issues no close operation and
\* leaves the state as it was.
C14_CloseOnceEachIdempotent == []C14_ClosesBoth /\ [][C14_SecondCloseIdle]_vars

\* C17: a dry run builds and connects no client and performs no broker
\* operation at any point; every path the walker yielded is extracted and
\* counted (unless the user interrupts the run), and a dry run over readable
\* files only ends with every file counted as processed, no error, and exit
\* status 0.
C17_DryRun ==
    (driver = "main" /\ m.dry_run) =>
        /\ ~m.client /\ pj = IdleCall /\ last.op = "init"
        /\ conns = <<>> /\ chans = <<>> /\ connection = 0 /\ channel = 0
        /\ (m.pc \in {"walk", "finally", "summary", "returned"} /\ m.cause # "interrupted")
              => m.file_count + m.error_count = m.yielded
        /\ (m.pc = "returned" /\ m.cause = "completed")
              => /\ m.todo = 0 /\ m.summary
                 /\ m.error_count = 0 => (m.file_count = m.walks - 1 /\ m.exit = 0)

\* A completed dry run over more than one file, all of them readable.
C17_Witness ==
    /\ driver = "main" /\ m.dry_run
    /\ m.pc = "returned" /\ m.cause = "completed"
    /\ m.file_count > 1 /\ m.error_count = 0 /\ m.exit = 0

\* C18: when the first connect() of a run that is not a dry run fails, main
\* returns a non-zero status and no path has been asked of the walker, no
\* file extracted and nothing published.
C18_ConnectFailureStops ==
    (driver = "main" /\ last.op = "connect" /\ last.err # None) =>
        /\ m.pc = "returned" /\ m.exit = 1 /\ ~m.summary
        /\ m.walks = 0 /\ m.yielded = 0
        /\ m.file_count = 0 /\ m.error_count = 0
        /\ pj = IdleCall

\* A run with files to publish whose connect() failed.
C18_Witness ==
    /\ driver = "main" /\ ~m.dry_run /\ m.todo > 0
    /\ last.op = "connect" /\ last.err # None
    /\ m.pc = "returned"

\* C19: the root is validated before anything else: a root that is missing or
\* is not a directory makes main return a non-zero status with no connection
\* attempted, no path walked, no file extracted and nothing published.
C19_BadRootStops ==
    (driver = "main" /\ m.root # "dir") =>
        /\ m.pc \in {"validate", "returned"}
        /\ m.pc = "returned" => (m.exit = 1 /\ ~m.summary)
        /\ ~m.client /\ last.op = "init" /\ conns = <<>> /\ chans = <<>>
        /\ m.walks = 0 /\ m.yielded = 0
        /\ m.file_count = 0 /\ m.error_count = 0
        /\ pj = IdleCall

\* A run that is not a dry run, on a root that exists but is a file.
C19_Witness ==
    /\ driver = "main" /\ m.root = "file" /\ ~m.dry_run /\ m.todo > 0
    /\ m.pc = "returned" /\ m.exit = 1

\* C20: every run of main that started the scan ends with the summary of the
\* counts, also when a walker error or an interruption ended it.
C20_SummaryAlways ==
    (driver = "main" /\ m.pc = "returned"
        /\ m.cause \in {"completed", "fatal", "interrupted"}) => m.summary

\* C15: in a with statement, entering runs connect(), so that the client holds
\* its connection and channel inside the body; leaving the body calls close()
\* exactly once, whether the body ended normally or raised, and the exit does
\* not suppress an error the body raised.
C15_ScopedAcquisition ==
    driver = "with" =>
        /\ scope.pc \in {"enter", "raised", "body", "exit"} => scope.closes = 0
        /\ scope.pc \in {"body", "exit"} => (connection # 0 /\ channel # 0)
        /\ (scope.pc = "body" /\ last.op = "connect") =>
              (last.err = None /\ last.newConn = connection /\ last.newChan = channel)
        /\ scope.pc = "left" =>
              /\ scope.closes = 1 /\ last.op = "close"
              /\ scope.propagated = scope.body_error

\* A with statement left by an error of its body, after close().
C15_Witness ==
    /\ driver = "with" /\ scope.pc = "left"
    /\ scope.body_error # None /\ scope.closes = 1

\* C16: every message publish_json hands to the broker goes to the default
\* exchange with the queue name as routing key, content type application/json
\* and delivery mode 2, and its body is UTF-8 JSON that parses back to a
\* record with the fields and the values of the payload.
C16_WireFormat ==
    wire.pc \in {"published", "consumed"} =>
        /\ wire.call.exchange = ""
        /\ wire.call.routing_key = wire.queue
        /\ wire.call.properties.content_type = "application/json"
        /\ wire.call.properties.delivery_mode = 2
        /\ \A i \in DOMAIN wire.call.body : wire.call.body[i] \in 0 .. 127
        /\ wire.pc = "consumed" =>
              /\ Len(wire.parsed) = Len(wire.payload)
              /\ AsDict(wire.parsed) = AsDict(wire.payload)

\* A message read back whose path holds a backslash and a character outside
\* ASCII, and whose size has several digits.
C16_Witness ==
    /\ wire.pc = "consumed"
    /\ \E i, j \in DOMAIN wire.payload[1][2].v :
          wire.payload[1][2].v[i] = 92 /\ wire.payload[1][2].v[j] > 127
    /\ wire.payload[3][2].v > 9

\* C26: whatever retry_count is (0 and negative values included), a
\* publish_json that returns normally has handed the message to the broker
\* by exactly one successful basic_publish.
C26_ReturnMeansPublished ==
    pj.pc = "returned" => pj.sent = 1

\* C27: a failed connect leaks no transport connection: when connect() has
\* opened the connection and then fails on the channel or the queue, that
\* connection is closed; after main returned 1 for a failed connect(), no
\* connection of the run is open.
C27_NoLeakOnFailedConnect ==
    /\ (last.op = "connect" /\ last.err # None /\ last.newConn # 0)
          => ~conns[last.newConn]
    /\ (driver = "main" /\ m.cause = "connect_failed")
          => \A c \in DOMAIN conns : ~conns[c]

\* C28: a channel the client holds was opened on the connection it holds: no
\* channel without a connection, no new connection paired with a channel of
\* an earlier one, and every basic_publish goes through a channel of the
\* current connection.
C28_ChannelOfCurrentConnection ==
    /\ channel # 0 => (connection # 0 /\ chans[channel].conn = connection)
    /\ (last.op = "attempt" /\ last.pubChan # 0)
          => chans[last.pubChan].conn = last.pubConnection

\* The entries iter_files is to yield: those that are neither a directory nor
\* a broken symbolic link, and that can be examined.
Expected(t) == {i \in 1 .. t.n : t.kind[i] \in {"file", "link_file"}}

NoDuplicates(q) == \A i, j \in DOMAIN q : q[i] = q[j] => i = j

\* C21: on a tree that does not change, iter_files yields every entry below
\* the root that is not a directory exactly once, no directory and no broken
\* symbolic link, and ends; on an empty directory it yields nothing.
C21_WalkYieldsEachFileOnce ==
    (walk.pc \in {"suspended", "done"} /\ walk.started /\ walk.rootAtCall = "dir"
        /\ \A i \in 1 .. walk.tree.n : walk.tree.kind[i] # "denied") =>
        /\ NoDuplicates(walk.yielded)
        /\ \A k \in DOMAIN walk.yielded :
              walk.tree.kind[walk.yielded[k]] \notin {"dir", "link_dir", "broken_link"}
        /\ Len(walk.yielded) + Len(walk.pending) <= walk.tree.n
        /\ walk.pc = "done" =>
              /\ {walk.yielded[k] : k \in DOMAIN walk.yielded} = Expected(walk.tree)
              /\ walk.tree.n = 0 => walk.yielded = <<>>

\* A finished walk of a tree with a file inside a directory, a directory and
\* a broken symbolic link.
C21_Witness ==
    /\ walk.pc = "done" /\ walk.rootAtCall = "dir"
    /\ \E i, j, k \in 1 .. walk.tree.n :
          /\ walk.tree.kind[i] = "dir" /\ walk.tree.parent[j] = i
          /\ walk.tree.kind[j] = "file" /\ walk.tree.kind[k] = "broken_link"
    /\ Len(walk.yielded) > 0

\* C22: iter_files fails with the directory-required error, before yielding
\* any path, whenever root is not a directory when iter_files is called.
C22_CheckedAtCall ==
    (walk.pc # "none" /\ walk.rootAtCall \in {"file", "missing"}) =>
        /\ walk.yielded = <<>>
        /\ walk.started => walk.raised = "ValueError"

\* C23: an entry whose examination raises a permission or other access error
\* is skipped and raises nothing to the caller; the walk goes on, yields every
\* other file exactly once and ends normally.
C23_EntryErrorSkipped ==
    (walk.pc # "none" /\ \E i \in 1 .. walk.tree.n : walk.tree.kind[i] = "denied") =>
        /\ walk.raised # "PermissionError"
        /\ NoDuplicates(walk.yielded)
        /\ \A k \in DOMAIN walk.yielded : walk.tree.kind[walk.yielded[k]] # "denied"
        /\ walk.pc = "done" =>
              {walk.yielded[k] : k \in DOMAIN walk.yielded} = Expected(walk.tree)

\* A finished walk that met an entry it could not examine before a file.
C23_Witness ==
    /\ walk.pc = "done"
    /\ \E i, j \in 1 .. walk.tree.n :
          /\ i < j /\ walk.tree.kind[i] = "denied" /\ walk.tree.kind[j] = "file"
          /\ \E k \in DOMAIN walk.yielded : walk.yielded[k] = j

\* C24: for each of the six settings from_env takes the explicit argument
\* whenever one is passed (anything but None, 0 and the empty string
\* included), else the environment variable when it is set, else the default.
C24_ExplicitEnvDefault ==
    (cfg.pc = "resolved" /\ cfg.via = "from_env") =>
        \A s \in Settings :
            IF cfg.args[s].t # "none" THEN cfg.result[s] = cfg.args[s]
            ELSE IF cfg.env[s].set
                 THEN cfg.result[s].v = (IF s = "port" THEN 15672 ELSE "env")
            ELSE cfg.result[s] = ArgDefault[s]

\* C25: through main, a broker option that is not given on the command line
\* takes the value of its environment variable when that is set, and the
\* default only when neither is given.
C25_CliEnvFallback ==
    (cfg.pc = "resolved" /\ cfg.via = "main") =>
        \A s \in Settings :
            ~cfg.argv[s].set =>
                IF cfg.env[s].set
                THEN cfg.result[s].v = (IF s = "port" THEN 15672 ELSE "env")
                ELSE cfg.result[s] = ArgDefault[s]
====
